---- MODULE Spec2Model ----
(***************************************************************************)
(* Model of GET /trends/geographical of src/backend/main.py                *)
(* (get_geographical_trends): snapshot discovery, loading, the grouping    *)
(* pass over the sentiment records and the emission of one result per      *)
(* region.                                                                 *)
(*                                                                         *)
(* Encodings                                                               *)
(*  - a file name is the tuple of the code points of its path; files maps   *)
(*    the path of every regular file of the tree to its content, and the   *)
(*    directories are the proper prefixes of those paths;                  *)
(*  - a JSON record is [region |-> r, sentiment |-> s]; r is a string, or  *)
(*    Absent (the key is not in the object) or Null (JSON null, Python     *)
(*    None); s is [kind, val] with kind "number" (val in units of          *)
(*    1/SentimentUnit, exactly representable as a float, so the running    *)
(*    sums of the code are exact), "absent" (no key) or "text" (a JSON     *)
(*    string float() cannot parse, such as "n/a");                         *)
(*  - an output sentiment is an integer number of 10^-Places;              *)
(*  - lat/lon are integers in units of 10^-4 degree.                       *)
(***************************************************************************)
EXTENDS Integers, Sequences, FiniteSets, TLC

VARIABLES files, region_param, pc, sentiment_data, i, region_sentiment,
          j, geographical_data, status, body

vars == <<files, region_param, pc, sentiment_data, i, region_sentiment,
          j, geographical_data, status, body>>

(* ------------------------------ bounds -------------------------------- *)

\* longest record list over the full record alphabet
MaxLen == 2

\* longest record list over the narrow alphabet (interleavings)
LongLen == 5

(* --------------------------- JSON values ------------------------------ *)

Absent == "<absent>"

Null == "<null>"

\* sentiment numbers are held in units of 1/SentimentUnit
SentimentUnit == 8

\* round(avg_sentiment, 2)
Places == 2

Number(n) == [kind |-> "number", val |-> n]

NoSentiment == [kind |-> "absent", val |-> 0]

Text == [kind |-> "text", val |-> 0]

RegionValues == {Absent, Null, "Unknown", "Toronto", "Germany", "toronto"}

SentimentValues == {Number(1), Number(-3), Number(4), NoSentiment, Text}

Records == [region : RegionValues, sentiment : SentimentValues]

NarrowRecords == { [region |-> "Toronto", sentiment |-> Number(1)],
                   [region |-> "Germany", sentiment |-> Number(-3)],
                   [region |-> Absent,    sentiment |-> Number(4)],
                   [region |-> "Toronto", sentiment |-> NoSentiment] }

SeqsBetween(S, lo, hi) == UNION { [1..k -> S] : k \in lo..hi }

RecordLists == SeqsBetween(Records, 0, MaxLen)
                 \cup SeqsBetween(NarrowRecords, MaxLen + 1, LongLen)

\* json.load raises on this file
Corrupt == [valid |-> FALSE, has_sentiment |-> FALSE, sentiment |-> <<>>]

\* a JSON object without a "sentiment" key
NoKey == [valid |-> TRUE, has_sentiment |-> FALSE, sentiment |-> <<>>]

Snapshot(recs) == [valid |-> TRUE, has_sentiment |-> TRUE, sentiment |-> recs]

Docs == {Corrupt, NoKey} \cup { Snapshot(r) : r \in RecordLists }

SmallDocs == { Corrupt,
               Snapshot(<<[region |-> "Toronto", sentiment |-> Number(1)]>>),
               Snapshot(<<[region |-> "Germany", sentiment |-> Number(-3)],
                          [region |-> Null, sentiment |-> Text]>>) }

(* ---------------------------- file names ------------------------------ *)

\* "data/processed_data_"
PatternPrefix == <<100, 97, 116, 97, 47, 112, 114, 111, 99, 101, 115, 115,
                   101, 100, 95, 100, 97, 116, 97, 95>>

\* ".json"
PatternSuffix == <<46, 106, 115, 111, 110>>

\* data/processed_data_1.json
File1 == PatternPrefix \o <<49>> \o PatternSuffix

\* data/processed_data_10.json
File10 == PatternPrefix \o <<49, 48>> \o PatternSuffix

\* data/processed_data_9.json
File9 == PatternPrefix \o <<57>> \o PatternSuffix

\* data/processed_data_9.json.bak
FileBak == File9 \o <<46, 98, 97, 107>>

\* data/processed_data_a/b.json
FileNested == PatternPrefix \o <<97, 47, 98>> \o PatternSuffix

\* data/processed_data_5.json/b.json: a file inside a directory whose own
\* name has the shape of a snapshot name
FileInDir == PatternPrefix \o <<53>> \o PatternSuffix \o <<47, 98>> \o PatternSuffix

DirNames == {File1, File10, File9, FileBak, FileNested, FileInDir}

\* "/"
Separator == <<47>>

\* "data/"
DataDir == <<100, 97, 116, 97, 47>>

\* os.scandir("data"): the entry of the directory data through which the
\* path is reached, a regular file (the path itself) or a sub-directory
\* (the path cut before the first "/" after "data/")
Entry(path) ==
    LET cuts == { k \in (Len(DataDir) + 1)..Len(path) : <<path[k]>> = Separator }
    IN IF cuts = {} THEN path
       ELSE SubSeq(path, 1, (CHOOSE k \in cuts : \A m \in cuts : k <= m) - 1)

\* fnmatch of an entry of data against "processed_data_*.json": "*" stands
\* for any run of characters, the empty one included, that holds no "/"
Matches(name) ==
    /\ Len(name) >= Len(PatternPrefix) + Len(PatternSuffix)
    /\ SubSeq(name, 1, Len(PatternPrefix)) = PatternPrefix
    /\ SubSeq(name, Len(name) - Len(PatternSuffix) + 1, Len(name)) = PatternSuffix
    /\ \A k \in (Len(PatternPrefix) + 1)..(Len(name) - Len(PatternSuffix)) :
          <<name[k]>> # Separator

\* glob.glob("data/processed_data_*.json"): the matching entries of data,
\* regular files and sub-directories alike
Glob(fs) == { e \in { Entry(n) : n \in DOMAIN fs } : Matches(e) }

\* open(latest_file, 'r') succeeds on a regular file and raises
\* IsADirectoryError on a directory
Opens(fs, name) == name \in DOMAIN fs

\* a < b for Python strings: code point by code point, a proper prefix first
StrLess(a, b) ==
    \E k \in 1..Len(b) :
        /\ \A m \in 1..(k - 1) : m <= Len(a) /\ a[m] = b[m]
        /\ (k > Len(a) \/ a[k] < b[k])

MinOf(names) == CHOOSE n \in names : \A m \in names : m = n \/ StrLess(n, m)

\* max(processed_files)
LatestFile(names) == CHOOSE n \in names : \A m \in names : m = n \/ StrLess(m, n)

\* data.get("sentiment", []) ; the handler declares no region parameter,
\* so the query string's region never reaches this code
LoadSentiment(doc, region) ==
    IF doc.has_sentiment THEN doc.sentiment ELSE <<>>

(* --------------------------- fixed tables ----------------------------- *)

country_codes ==
    ("United States" :> "USA") @@ ("United Kingdom" :> "GBR") @@
    ("India" :> "IND") @@ ("Canada" :> "CAN") @@ ("Australia" :> "AUS") @@
    ("Germany" :> "DEU") @@ ("France" :> "FRA") @@ ("Japan" :> "JPN") @@
    ("South Korea" :> "KOR") @@ ("Brazil" :> "BRA")

location_coords ==
    ("New York" :> [lat |-> 407128, lon |-> -740060]) @@
    ("Los Angeles" :> [lat |-> 340522, lon |-> -1182437]) @@
    ("Chicago" :> [lat |-> 418781, lon |-> -876298]) @@
    ("London" :> [lat |-> 515074, lon |-> -1278]) @@
    ("Paris" :> [lat |-> 488566, lon |-> 23522]) @@
    ("Berlin" :> [lat |-> 525200, lon |-> 134050]) @@
    ("Tokyo" :> [lat |-> 356762, lon |-> 1396503]) @@
    ("Sydney" :> [lat |-> -338688, lon |-> 1512093]) @@
    ("Toronto" :> [lat |-> 436532, lon |-> -793832]) @@
    ("Mumbai" :> [lat |-> 190760, lon |-> 728777]) @@
    ("Delhi" :> [lat |-> 287041, lon |-> 771025]) @@
    ("Bangalore" :> [lat |-> 129716, lon |-> 775946]) @@
    ("Seoul" :> [lat |-> 375665, lon |-> 1269780]) @@
    ("São Paulo" :> [lat |-> -235505, lon |-> -466333]) @@
    ("Rio de Janeiro" :> [lat |-> -229068, lon |-> -431729])

(* --------------------------- grouping pass ---------------------------- *)

\* item.get('region', 'Unknown'): the default replaces a missing key only
Label(item) == IF item.region = Absent THEN "Unknown" ELSE item.region

\* float(...) raises ValueError on a string that is not a number
Coercible(item) == item.sentiment.kind # "text"

\* float(item.get('sentiment', 0))
Coerce(item) ==
    IF item.sentiment.kind = "number" THEN item.sentiment.val ELSE 0

HasKey(rs, region) == \E k \in 1..Len(rs) : rs[k].region = region

KeyIndex(rs, region) == CHOOSE k \in 1..Len(rs) : rs[k].region = region

Fresh(region) == [region |-> region, total_sentiment |-> 0, count |-> 0]

AccumulateNoMerge(rs, region, sentiment) ==
    Append(rs, [region |-> region, total_sentiment |-> sentiment, count |-> 1])

AccumulateFront(rs, region, sentiment) ==
    LET rs1 == IF HasKey(rs, region) THEN rs ELSE <<Fresh(region)>> \o rs
        k   == KeyIndex(rs1, region)
    IN [rs1 EXCEPT ![k].total_sentiment = @ + sentiment, ![k].count = @ + 1]

AccumulateLazy(rs, region, sentiment) ==
    IF HasKey(rs, region)
    THEN LET k == KeyIndex(rs, region)
         IN [rs EXCEPT ![k].total_sentiment = @ + sentiment, ![k].count = @ + 1]
    ELSE Append(rs, Fresh(region))

AccumulateAll(rs, region, sentiment) ==
    LET rs1 == IF HasKey(rs, region) THEN rs ELSE Append(rs, Fresh(region))
        k   == KeyIndex(rs1, region)
    IN [m \in 1..Len(rs1) |->
          [rs1[m] EXCEPT !.total_sentiment = IF m = k THEN @ + sentiment ELSE @,
                         !.count = @ + 1]]

\* one iteration of the loop body after the two reads: the dict keeps its
\* keys in insertion order, a new key goes last
Accumulate(rs, region, sentiment) ==
    LET rs1 == IF HasKey(rs, region) THEN rs ELSE Append(rs, Fresh(region))
        k   == KeyIndex(rs1, region)
    IN [rs1 EXCEPT ![k].total_sentiment = @ + sentiment, ![k].count = @ + 1]

(* ---------------------------- emission -------------------------------- *)

\* p/q (q > 0) cut toward zero
Truncate(p, q) == IF p >= 0 THEN p \div q ELSE -((-p) \div q)

Round2Truncate(total, count) ==
    IF count > 0 THEN Truncate(total * 10 ^ Places, SentimentUnit * count) ELSE 0

\* significand bits of a Python float (IEEE 754 binary64)
MantissaBits == 53

RECURSIVE Pow2Mod(_, _)
\* 2^e mod b
Pow2Mod(e, b) == IF e = 0 THEN 1 % b ELSE (2 * Pow2Mod(e - 1, b)) % b

RECURSIVE ShiftUp(_, _, _)
\* for 0 < a < b: the least t >= from with a * 2^t >= b
ShiftUp(a, b, from) ==
    IF a * 2 ^ from >= b THEN from ELSE ShiftUp(a, b, from + 1)

RECURSIVE ShiftDown(_, _, _)
\* for a >= b > 0: the greatest u >= from with b * 2^u <= a
ShiftDown(a, b, from) ==
    IF b * 2 ^ (from + 1) > a THEN from ELSE ShiftDown(a, b, from + 1)

\* the float division a / b (a > 0, b > 0, both exact): the sign of
\* (the float quotient) - (the exact quotient). The quotient is scaled so
\* that its integer part has MantissaBits bits; the remainder of that
\* scaled quotient decides which way round-to-nearest went.
DivisionError(a, b) ==
    IF a = 0 THEN 0 ELSE
    LET e == IF a >= b THEN (MantissaBits - 1) - ShiftDown(a, b, 0)
                       ELSE (MantissaBits - 1) + ShiftUp(a, b, 1)
        r == ((a % b) * Pow2Mod(e, b)) % b
    IN IF r = 0 THEN 0 ELSE IF 2 * r < b THEN -1 ELSE 1

\* round(x, 2) of the float x = fl(p / (q * 10^Places)), in units of
\* 10^-Places (q > 0): round() rounds the exact value of the float, so a
\* decimal tie of the exact quotient is decided by the side on which the
\* float division left x, and is a real tie (to the even neighbour) only
\* when the division was exact.
RoundFloat(total, p, q) ==
    LET f == p \div q
        r == p - f * q
        d == DivisionError(IF total < 0 THEN -total ELSE total, q)
    IN IF 2 * r < q THEN f
       ELSE IF 2 * r > q THEN f + 1
       ELSE IF d = 0 THEN (IF f % 2 = 0 THEN f ELSE f + 1)
       ELSE IF (p > 0) = (d > 0) THEN f + 1 ELSE f

\* round(total / count if count > 0 else 0, 2), in units of 10^-Places
Round2(total, count) ==
    IF count > 0
    THEN RoundFloat(total, total * 10 ^ Places, SentimentUnit * count)
    ELSE 0

GeoResultNoCity(values) ==
    [region       |-> values.region,
     country_code |-> IF values.region \in DOMAIN country_codes
                      THEN country_codes[values.region] ELSE "",
     sentiment    |-> Round2(values.total_sentiment, values.count),
     count        |-> values.count,
     type         |-> "country"]

\* the body of the second loop: the city table is looked up first
GeoResult(values) ==
    IF values.region \in DOMAIN location_coords
    THEN [region    |-> values.region,
          lat       |-> location_coords[values.region].lat,
          lon       |-> location_coords[values.region].lon,
          sentiment |-> Round2(values.total_sentiment, values.count),
          count     |-> values.count,
          type      |-> "city"]
    ELSE [region       |-> values.region,
          country_code |-> IF values.region \in DOMAIN country_codes
                           THEN country_codes[values.region] ELSE "",
          sentiment    |-> Round2(values.total_sentiment, values.count),
          count        |-> values.count,
          type         |-> "country"]

(* ------------------------------ state --------------------------------- *)

Directories ==
    UNION { [names -> SmallDocs] : names \in SUBSET DirNames }

SingleSnapshots == { (File1 :> d) : d \in Docs }

RegionParams == {Absent, "Germany"}

Init ==
    /\ files \in Directories \cup SingleSnapshots
    /\ region_param \in RegionParams
    /\ pc = "start"
    /\ sentiment_data = <<>>
    /\ i = 1
    /\ region_sentiment = <<>>
    /\ j = 1
    /\ geographical_data = <<>>
    /\ status = 0
    /\ body = <<>>

\* if not processed_files: return []
NoSnapshot ==
    /\ pc = "start"
    /\ Glob(files) = {}
    /\ pc' = "done"
    /\ status' = 200
    /\ body' = <<>>
    /\ UNCHANGED <<files, region_param, sentiment_data, i, region_sentiment,
                   j, geographical_data>>

\* open or json.load raises; the handler turns it into HTTP 500
LoadFails ==
    /\ pc = "start"
    /\ Glob(files) # {}
    /\ IF Opens(files, LatestFile(Glob(files)))
       THEN ~files[LatestFile(Glob(files))].valid
       ELSE TRUE
    /\ pc' = "error"
    /\ status' = 500
    /\ UNCHANGED <<files, region_param, sentiment_data, i, region_sentiment,
                   j, geographical_data, body>>

LoadSnapshot ==
    /\ pc = "start"
    /\ Glob(files) # {}
    /\ Opens(files, LatestFile(Glob(files)))
    /\ files[LatestFile(Glob(files))].valid
    /\ sentiment_data' = LoadSentiment(files[LatestFile(Glob(files))], region_param)
    /\ region_sentiment' = <<>>
    /\ i' = 1
    /\ pc' = "group"
    /\ UNCHANGED <<files, region_param, j, geographical_data, status, body>>

\* one record of "for item in sentiment_data"
GroupRecord ==
    /\ pc = "group"
    /\ i <= Len(sentiment_data)
    /\ Coercible(sentiment_data[i])
    /\ region_sentiment' = Accumulate(region_sentiment,
                                      Label(sentiment_data[i]),
                                      Coerce(sentiment_data[i]))
    /\ i' = i + 1
    /\ UNCHANGED <<files, region_param, pc, sentiment_data, j,
                   geographical_data, status, body>>

\* float() raises on the record; except Exception -> HTTPException(500)
GroupRaises ==
    /\ pc = "group"
    /\ i <= Len(sentiment_data)
    /\ ~Coercible(sentiment_data[i])
    /\ pc' = "error"
    /\ status' = 500
    /\ UNCHANGED <<files, region_param, sentiment_data, i, region_sentiment,
                   j, geographical_data, body>>

GroupDone ==
    /\ pc = "group"
    /\ i > Len(sentiment_data)
    /\ pc' = "emit"
    /\ j' = 1
    /\ geographical_data' = <<>>
    /\ UNCHANGED <<files, region_param, sentiment_data, i, region_sentiment,
                   status, body>>

\* one region of "for region, values in region_sentiment.items()"
EmitRegion ==
    /\ pc = "emit"
    /\ j <= Len(region_sentiment)
    /\ geographical_data' = Append(geographical_data, GeoResult(region_sentiment[j]))
    /\ j' = j + 1
    /\ UNCHANGED <<files, region_param, pc, sentiment_data, i,
                   region_sentiment, status, body>>

\* return geographical_data
Return ==
    /\ pc = "emit"
    /\ j > Len(region_sentiment)
    /\ pc' = "done"
    /\ status' = 200
    /\ body' = geographical_data
    /\ UNCHANGED <<files, region_param, sentiment_data, i, region_sentiment,
                   j, geographical_data>>

Next ==
    \/ NoSnapshot
    \/ LoadFails
    \/ LoadSnapshot
    \/ GroupRecord
    \/ GroupRaises
    \/ GroupDone
    \/ EmitRegion
    \/ Return

Spec == Init /\ [][Next]_vars

(* ------------------- vocabulary of the properties --------------------- *)

\* the snapshot the request reads, when one matches the pattern
Greatest(names) == { n \in names : \A m \in names : m = n \/ StrLess(m, n) }

Parsed == pc \in {"group", "emit", "done"} /\ Glob(files) # {}

LabelsOf(recs, n) == { Label(recs[k]) : k \in 1..n }

CountOf(recs, n, label) == Cardinality({ k \in 1..n : Label(recs[k]) = label })

RECURSIVE SumOf(_, _, _)
SumOf(recs, n, label) ==
    IF n = 0 THEN 0
    ELSE SumOf(recs, n - 1, label)
           + (IF Label(recs[n]) = label THEN Coerce(recs[n]) ELSE 0)

FirstIndex(recs, label) ==
    CHOOSE k \in 1..Len(recs) :
        /\ Label(recs[k]) = label
        /\ \A m \in 1..(k - 1) : Label(recs[m]) # label

RECURSIVE TotalCount(_)
TotalCount(entries) ==
    IF entries = <<>> THEN 0
    ELSE entries[1].count + TotalCount(Tail(entries))

Abs(x) == IF x < 0 THEN -x ELSE x

(* ------------------------------- C1 ----------------------------------- *)

\* C1: a record whose sentiment is present but not a number is
\* counted as 0 and the request still returns a list, so a request whose
\* snapshot parses never ends in the error response.
C1_MalformedTolerated ==
    (Glob(files) # {} /\ \A n \in Greatest(Glob(files)) :
                            n \in DOMAIN files /\ files[n].valid)
        => status # 500

(* ------------------------------- C2 ----------------------------------- *)

\* C2: with a region filter in the request, only the records of that region
\* are aggregated, so every output entry is for the filter's region.
C2_FilterApplied ==
    (pc = "done" /\ region_param # Absent)
        => \A k \in 1..Len(body) : body[k].region = region_param

(* ------------------------------- C3 ----------------------------------- *)

\* C3: records with a missing or null region are aggregated
\* under "Unknown", so no output entry has a null region.
C3_NullIsUnknown ==
    pc = "done" => \A k \in 1..Len(body) : body[k].region # Null

(* ------------------------------- C4 ----------------------------------- *)

\* C4: the output has exactly one entry per distinct region label of the
\* grouping pass: no label twice, every label of a record present, nothing
\* else, and an empty input gives an empty output.
C4_OnePerLabel ==
    pc = "done" =>
        /\ \A a, b \in 1..Len(body) : body[a].region = body[b].region => a = b
        /\ { body[k].region : k \in 1..Len(body) }
              = LabelsOf(sentiment_data, Len(sentiment_data))
        /\ sentiment_data = <<>> => body = <<>>

C4_Witness ==
    /\ pc = "done"
    /\ Len(sentiment_data) >= 3
    /\ Len(body) = 2

(* ------------------------------- C5 ----------------------------------- *)

\* C5: after every processed prefix each region's aggregate holds the count
\* and the sum of exactly that region's records (records of other regions
\* leave it alone), and the output entry carries count n and the mean
\* (s1+...+sn)/n rounded to the nearest 10^-Places.
C5_Mean ==
    /\ \A k \in 1..Len(region_sentiment) :
          /\ region_sentiment[k].count
                = CountOf(sentiment_data, i - 1, region_sentiment[k].region)
          /\ region_sentiment[k].total_sentiment
                = SumOf(sentiment_data, i - 1, region_sentiment[k].region)
    /\ pc = "done" =>
          \A k \in 1..Len(body) :
             LET n == CountOf(sentiment_data, Len(sentiment_data), body[k].region)
                 s == SumOf(sentiment_data, Len(sentiment_data), body[k].region)
             IN /\ body[k].count = n
                /\ n >= 1
                /\ 2 * Abs(body[k].sentiment * SentimentUnit * n - s * 10 ^ Places)
                      <= SentimentUnit * n

C5_Witness ==
    /\ pc = "done"
    /\ Len(body) >= 2
    /\ \E k \in 1..Len(body) :
          /\ body[k].region = "Toronto"
          /\ body[k].count = 2
          /\ body[k].sentiment = 12

(* ------------------------------- C6 ----------------------------------- *)

\* C6: the output lists the regions in the order of their first occurrence
\* in the input, however later records interleave.
C6_FirstSeenOrder ==
    \A a, b \in 1..Len(geographical_data) :
        a < b => FirstIndex(sentiment_data, geographical_data[a].region)
                   < FirstIndex(sentiment_data, geographical_data[b].region)

C6_Witness ==
    /\ pc = "done"
    /\ body = geographical_data
    /\ Len(sentiment_data) >= 4
    /\ Label(sentiment_data[1]) # Label(sentiment_data[2])
    /\ Label(sentiment_data[3]) = Label(sentiment_data[2])
    /\ Label(sentiment_data[4]) = Label(sentiment_data[1])
    /\ Len(body) = 2

(* ------------------------------- C7 ----------------------------------- *)

\* C7: an entry whose label is exactly a city-table name is a city entry
\* with that city's lat/lon and no country_code; any other entry is a
\* country entry with the country table's code for the exact label, or ""
\* when the label is in neither table, and no lat/lon.
C7_LookupPolicy ==
    \A k \in 1..Len(geographical_data) :
        LET e == geographical_data[k]
        IN IF e.region \in DOMAIN location_coords
           THEN /\ e.type = "city"
                /\ e.lat = location_coords[e.region].lat
                /\ e.lon = location_coords[e.region].lon
                /\ "country_code" \notin DOMAIN e
           ELSE /\ e.type = "country"
                /\ "lat" \notin DOMAIN e
                /\ "lon" \notin DOMAIN e
                /\ e.region \in DOMAIN country_codes
                      => e.country_code = country_codes[e.region]
                /\ e.region \notin DOMAIN country_codes => e.country_code = ""

C7_Witness ==
    /\ pc = "done"
    /\ \E k \in 1..Len(body) : body[k].region = "Toronto" /\ body[k].type = "city"
    /\ \E k \in 1..Len(body) : body[k].region = "Germany" /\ body[k].type = "country"
    /\ \E k \in 1..Len(body) : body[k].region = "Unknown" /\ body[k].type = "country"

(* ------------------------------- C8 ----------------------------------- *)

\* C8: with no name in the data directory matching the pattern the request
\* returns the empty list and no error; with at least one, the records
\* aggregated are those of the matching name that is greatest, and of no
\* other file. (A matching name is any entry glob returns; when the
\* greatest one is a directory, open raises and nothing is aggregated.)
C8_LatestSnapshot ==
    /\ (Glob(files) = {} /\ pc # "start")
          => (pc = "done" /\ status = 200 /\ body = <<>>)
    /\ Parsed =>
          \E n \in Glob(files) :
             /\ \A m \in Glob(files) : m = n \/ StrLess(m, n)
             /\ n \in DOMAIN files
             /\ sentiment_data = IF files[n].has_sentiment
                                 THEN files[n].sentiment ELSE <<>>
    /\ (\E n \in Glob(files) :
           /\ \A m \in Glob(files) : m = n \/ StrLess(m, n)
           /\ n \notin DOMAIN files)
          => (pc \in {"start", "error"} /\ sentiment_data = <<>>)

C8_Witness ==
    /\ pc = "done"
    /\ DirNames \subseteq DOMAIN files
    /\ files[File9] # files[File10]
    /\ files[File9] # files[File1]
    /\ files[File9] # files[FileBak]
    /\ files[File9] # files[FileNested]
    /\ files[File9] # files[FileInDir]
    /\ Len(body) = 1

(* ------------------------------- C9 ----------------------------------- *)

\* C9: at every record boundary of the grouping pass every key of the
\* mapping has count >= 1, so the mean is never computed with count = 0.
C9_CountPositive ==
    \A k \in 1..Len(region_sentiment) : region_sentiment[k].count >= 1

C9_Witness ==
    /\ pc = "emit"
    /\ j = 2
    /\ j <= Len(region_sentiment)
    /\ region_sentiment[j].count >= 2

(* ------------------------------- C10 ---------------------------------- *)

\* C10: after k records have been processed the counts of the mapping sum
\* to k, and the counts of a completed request's output sum to the number
\* of input records.
C10_Conservation ==
    /\ TotalCount(region_sentiment) = i - 1
    /\ i - 1 <= Len(sentiment_data)
    /\ pc = "done" => TotalCount(body) = Len(sentiment_data)

C10_Witness ==
    /\ pc = "done"
    /\ Len(sentiment_data) = 4
    /\ Len(body) = 3
    /\ TotalCount(body) = 4

====
